---- MODULE Spec2Model ----
(***************************************************************************)
(* h3i synchronous client: the driver loop of connect(), the script engine *)
(* check_duration_and_do_actions() / handle_actions(), and the WaitingFor  *)
(* tracker they use (src/h3i/src/client/sync_client.rs).                   *)
(*                                                                         *)
(* Time is an integer number of ticks.  The transport (quiche::Connection),*)
(* the socket and the stream parser are the environment: every value they  *)
(* return is drawn from a small set.                                       *)
(***************************************************************************)
EXTENDS Integers, Sequences, FiniteSets, TLC

\* ---------------------------------------------------------------- bounds
MaxScriptLen == 2
MaxTime == 3
MaxDur == 2
MaxTimeout == 2
MaxResponses == 1

\* Option::None for the Option<Duration> / Option<Instant> values
None == -1

Streams == {0, 4}
EventTypes == {"FrameArrived", "Finished"}

\* ---------------------------------------------------------------- script
SendFrame == [op |-> "Send", period |-> 0, stream |-> 0, kind |-> "-"]
FlushPackets == [op |-> "FlushPackets", period |-> 0, stream |-> 0, kind |-> "-"]
WaitDuration(d) == [op |-> "WaitDuration", period |-> d, stream |-> 0, kind |-> "-"]
WaitStreamEvent(s, k) == [op |-> "StreamEvent", period |-> 0, stream |-> s, kind |-> k]

StreamEvent(s, k) == [stream |-> s, kind |-> k]
StreamEvents == {StreamEvent(s, k) : s \in Streams, k \in EventTypes}

\* the periods of the duration waits: the shortest one and the longest one
Durations == {1, MaxDur}

Action ==
    {SendFrame, FlushPackets}
        \cup {WaitDuration(d) : d \in Durations}
        \cup {WaitStreamEvent(4, k) : k \in EventTypes}

Scripts == UNION {[1..n -> Action] : n \in 0..MaxScriptLen}

\* close_trigger_frames: None, or Some(set of streams whose frame is awaited)
NoTriggers == {-1}
CloseTriggerFrames == {NoTriggers, {0}}

VARIABLES
    script,                 \* actions: &[Action]
    close_trigger_frames,   \* Option<CloseTriggerFrames>
    seen,                   \* trigger frames seen so far (client.streams)
    pc,                     \* position of connect() in its loop
    now,                    \* the clock (Instant::now())
    established,            \* conn.is_established()
    closed,                 \* conn.is_closed()
    timeout,                \* value conn.timeout() returned this iteration
    actual_sleep,           \* deadline handed to poll.poll
    events_ready,           \* !events.is_empty() after the poll
    wait_duration,          \* Option<Duration>
    wait_instant,           \* Option<Instant>
    action_iter,            \* number of actions the iterator has yielded
    waiting_for,            \* WaitingFor, as a sequence of expectations
    app_proto_selected,
    wait_cleared,
    response,               \* the response the parse loop handled last
    nresp,                  \* responses handled in this iteration
    closes,                 \* conn.close() requests made in this iteration
    path_error,             \* history: conn.send_on_path failed in this iteration
    result,                 \* what connect() returned, "running" before
    consumed,               \* history: the actions the engine took, in order
    consumed_at,            \* history: the time of the last engine call that took one
    unblocked,              \* history: an event that lifts the last stream wait was decoded
    wf_before,              \* history: WaitingFor before the last response was handled
    any_cleared,            \* history: a response of this iteration removed an expectation
    marker_flushed          \* history: the flush has run since a FlushPackets was taken last

vars == <<script, close_trigger_frames, seen, pc, now, established, closed,
          timeout, actual_sleep, events_ready, wait_duration, wait_instant,
          action_iter, waiting_for, app_proto_selected, wait_cleared, response,
          nresp, closes, path_error, result, consumed, consumed_at, unblocked, wf_before,
          any_cleared, marker_flushed>>

NoResponse == [stream |-> -1, kind |-> "-"]

\* ------------------------------------------------- Wait Condition Tracker
is_empty(wf) == Len(wf) = 0

add_wait(wf, e) == Append(wf, e)

\* the match rule: stream id equality plus event kind
Matches(e, observed) == e.stream = observed.stream /\ e.kind = observed.kind

RECURSIVE RemoveFirst(_, _)
RemoveFirst(wf, observed) ==
    IF wf = <<>> THEN <<>>
    ELSE IF Matches(Head(wf), observed) THEN Tail(wf)
    ELSE <<Head(wf)>> \o RemoveFirst(Tail(wf), observed)

remove_wait(wf, observed) == RemoveFirst(wf, observed)

clear_waits_on_stream(wf, id) == SelectSeq(wf, LAMBDA e : e.stream # id)

\* ------------------------------------------------- Action Script Engine
\* what one handle_actions call leaves behind: the iterator position, the
\* tracker, the returned Option<Duration> and the actions it took
Stop(i, wf, ret, done) == [iter |-> i, wf |-> wf, ret |-> ret, done |-> done]

RECURSIVE for_action(_, _, _)

\* Action::FlushPackets => return None
arm_flush(i, wf, done) == Stop(i + 1, wf, None, Append(done, i + 1))

\* WaitType::WaitDuration(period) => return Some(*period)
arm_wait_duration(i, wf, done) ==
    Stop(i + 1, wf, script[i + 1].period, Append(done, i + 1))

\* variant: the stream wait is registered but the loop goes on
arm_stream_event_continue(i, wf, done) ==
    for_action(i + 1,
               add_wait(wf, StreamEvent(script[i + 1].stream, script[i + 1].kind)),
               Append(done, i + 1))

\* WaitType::StreamEvent(response) => add_wait(response); return None
arm_stream_event(i, wf, done) ==
    Stop(i + 1,
         add_wait(wf, StreamEvent(script[i + 1].stream, script[i + 1].kind)),
         None, Append(done, i + 1))

\* variant: the loop stops after the action it executed
arm_execute_stop(i, wf, done) == Stop(i + 1, wf, None, Append(done, i + 1))

\* action => execute_action(action, conn, stream_parsers), and the loop goes on
arm_execute(i, wf, done) == for_action(i + 1, wf, Append(done, i + 1))

\* for action in iter { match action { ... } }; None when the iterator ends
for_action(i, wf, done) ==
    IF i >= Len(script) THEN Stop(i, wf, None, done)
    ELSE CASE script[i + 1].op = "FlushPackets" -> arm_flush(i, wf, done)
           [] script[i + 1].op = "WaitDuration" -> arm_wait_duration(i, wf, done)
           [] script[i + 1].op = "StreamEvent" -> arm_stream_event(i, wf, done)
           [] OTHER -> arm_execute(i, wf, done)

\* variant: the iterator is created anew by each call
handle_actions_restart(iter, wf) ==
    IF ~is_empty(wf) THEN Stop(iter, wf, None, <<>>)
    ELSE for_action(0, wf, <<>>)

\* variant: the guard on waiting_for is missing
handle_actions_ignore_waits(iter, wf) == for_action(iter, wf, <<>>)

\* if !waiting_for.is_empty() { return None }, else the loop over the iterator
handle_actions(iter, wf) ==
    IF ~is_empty(wf) THEN Stop(iter, wf, None, <<>>)
    ELSE for_action(iter, wf, <<>>)

\* what one check_duration_and_do_actions call leaves behind; panic is the
\* failed wait_instant.unwrap()
Engine(wd, wi, r, panic) ==
    [wait_duration |-> wd, wait_instant |-> wi, iter |-> r.iter, wf |-> r.wf,
     done |-> r.done, panic |-> panic]

\* variant: the timer is armed without its start instant
duration_none_no_instant(wi, iter, wf, t) ==
    LET r == handle_actions(iter, wf)
    IN IF r.ret # None THEN Engine(r.ret, wi, r, FALSE)
       ELSE Engine(None, wi, r, FALSE)

\* match wait_duration { None => ... }
duration_none(wi, iter, wf, t) ==
    LET r == handle_actions(iter, wf)
    IN IF r.ret # None THEN Engine(r.ret, t, r, FALSE)
       ELSE Engine(None, wi, r, FALSE)

\* match wait_duration { Some(period) => ... }
duration_some(period, wi, iter, wf, t) ==
    IF wi = None THEN Engine(period, wi, Stop(iter, wf, None, <<>>), TRUE)
    ELSE IF t - wi >= period
         THEN LET r == handle_actions(iter, wf)
              IN IF r.ret # None THEN Engine(r.ret, wi, r, FALSE)
                 ELSE Engine(None, wi, r, FALSE)
         ELSE Engine(period, wi, Stop(iter, wf, None, <<>>), FALSE)

check_duration_and_do_actions(wd, wi, iter, wf, t) ==
    IF wd = None THEN duration_none(wi, iter, wf, t)
    ELSE duration_some(wd, wi, iter, wf, t)

\* ------------------------------------------------- Session Driver
Init ==
    /\ script \in Scripts
    /\ close_trigger_frames \in CloseTriggerFrames
    /\ seen = {}
    /\ pc = "top"
    /\ now = 0
    /\ established = FALSE
    /\ closed = FALSE
    /\ timeout = None
    /\ actual_sleep = None
    /\ events_ready = FALSE
    /\ wait_duration = None
    /\ wait_instant = None
    /\ action_iter = 0
    /\ waiting_for = <<>>
    /\ app_proto_selected = FALSE
    /\ wait_cleared = FALSE
    /\ response = NoResponse
    /\ nresp = 0
    /\ closes = {}
    /\ path_error = FALSE
    /\ result = "running"
    /\ consumed = <<>>
    /\ consumed_at = None
    /\ unblocked = FALSE
    /\ wf_before = <<>>
    /\ any_cleared = FALSE
    /\ marker_flushed = FALSE

\* the variables of the transport and of the close trigger
conn_vars == <<established, closed>>
\* the variables of the script engine
engine_vars == <<wait_duration, wait_instant, action_iter, waiting_for, consumed,
                 consumed_at, unblocked>>
\* the variables of the response loop
parse_vars == <<seen, wait_cleared, response, nresp, wf_before>>
\* the variables of the poll
poll_vars == <<timeout, actual_sleep, events_ready, now>>
config_vars == <<script, close_trigger_frames>>

Sleep(sleep, wait) == [actual_sleep |-> sleep, wait_duration |-> wait]

\* variant: the wait is not reduced
shave_keep_wait(wait, t) == Sleep(t, wait)

\* timeout < wait: shave the timeout off the wait and sleep for the timeout
shave(wait, t) == Sleep(t, wait - t)

\* variant: the transport timeout wins whenever there is one
compute_sleep_prefers_timeout(wait, t) ==
    IF t # None THEN Sleep(t, wait)
    ELSE IF wait # None THEN Sleep(wait, wait)
    ELSE Sleep(None, wait)

\* variant: the timeout is shaved off the wait whatever their order
compute_sleep_always_shave(wait, t) ==
    IF wait # None /\ t # None THEN shave(wait, t)
    ELSE IF t # None THEN Sleep(t, wait)
    ELSE IF wait # None THEN Sleep(wait, wait)
    ELSE Sleep(None, wait)

\* let actual_sleep = match (wait_duration, conn.timeout()) { ... }
compute_sleep(wait, t) ==
    IF wait # None /\ t # None
    THEN IF t < wait THEN shave(wait, t)
         ELSE IF wait < t THEN Sleep(wait, wait)
         ELSE Sleep(t, wait)
    ELSE IF t # None THEN Sleep(t, wait)
    ELSE IF wait # None THEN Sleep(wait, wait)
    ELSE Sleep(None, wait)

ComputeSleep ==
    /\ pc = "top"
    /\ \E t \in {None} \cup 0..MaxTimeout :
        /\ timeout' = t
        /\ actual_sleep' = compute_sleep(wait_duration, t).actual_sleep
        /\ wait_duration' = compute_sleep(wait_duration, t).wait_duration
    /\ pc' = "poll"
    /\ UNCHANGED <<config_vars, conn_vars, parse_vars, now, events_ready,
                   wait_instant, action_iter, waiting_for, consumed, consumed_at,
                   unblocked,
                   app_proto_selected, closes, path_error, result,
                   any_cleared, marker_flushed>>

\* poll.poll returned with no event after the whole deadline: conn.on_timeout()
PollTimeout ==
    /\ pc = "poll"
    /\ actual_sleep # None
    /\ now + actual_sleep <= MaxTime
    /\ now' = now + actual_sleep
    /\ events_ready' = FALSE
    /\ timeout' = None
    /\ actual_sleep' = None
    /\ closed' \in {closed, TRUE}
    /\ pc' = "closed1"
    /\ UNCHANGED <<config_vars, engine_vars, parse_vars, established,
                   app_proto_selected, closes, path_error, result,
                   any_cleared, marker_flushed>>

\* poll.poll returned because the socket became readable, maybe early
PollEvents ==
    /\ pc = "poll"
    /\ \E e \in 0..(IF actual_sleep = None THEN MaxTime ELSE actual_sleep) :
        /\ now + e <= MaxTime
        /\ now' = now + e
    /\ events_ready' = TRUE
    /\ timeout' = None
    /\ actual_sleep' = None
    /\ pc' = "read"
    /\ UNCHANGED <<config_vars, conn_vars, engine_vars, parse_vars,
                   app_proto_selected, closes, path_error, result,
                   any_cleared, marker_flushed>>

\* socket.recv_from failed with something else than WouldBlock
RecvFailed ==
    /\ pc = "read"
    /\ result' = "Other: recv() failed"
    /\ pc' = "done"
    /\ UNCHANGED <<config_vars, conn_vars, engine_vars, parse_vars, poll_vars,
                   app_proto_selected, closes, path_error,
                   any_cleared, marker_flushed>>

\* every datagram was read and fed to conn.recv, which moves the transport
RecvDone ==
    /\ pc = "read"
    /\ established' \in BOOLEAN
    /\ closed' \in {closed, TRUE}
    /\ pc' = "closed1"
    /\ UNCHANGED <<config_vars, engine_vars, parse_vars, poll_vars,
                   app_proto_selected, closes, path_error, result,
                   any_cleared, marker_flushed>>

\* if !conn.is_established() { return Err(HandshakeFail) } break;
closed_after_recv(est) == IF ~est THEN "HandshakeFail" ELSE "ConnectionSummary"

\* if conn.is_closed() { ... } after the read loop
CheckClosedAfterRecv ==
    /\ pc = "closed1"
    /\ IF closed
       THEN result' = closed_after_recv(established) /\ pc' = "done"
       ELSE result' = result /\ pc' = "select"
    /\ UNCHANGED <<config_vars, conn_vars, engine_vars, parse_vars, poll_vars,
                   app_proto_selected, closes, path_error,
                   any_cleared, marker_flushed>>

\* variant: the session is active only while the transport says so
SelectAppProtoNotSticky ==
    /\ pc = "select"
    /\ \E in_early_data \in {b \in BOOLEAN : b => ~established} :
        app_proto_selected' = (established \/ in_early_data)
    /\ IF app_proto_selected'
       THEN pc' = "actions1"
       ELSE pc' = "flush"
    /\ UNCHANGED <<config_vars, conn_vars, engine_vars, parse_vars, poll_vars,
                   closes, path_error, result,
                   any_cleared, marker_flushed>>

\* app_proto_selected = true once established or in early data
SelectAppProto ==
    /\ pc = "select"
    /\ \E in_early_data \in {b \in BOOLEAN : b => ~established} :
        app_proto_selected' = (app_proto_selected \/ established \/ in_early_data)
    /\ IF app_proto_selected'
       THEN pc' = "actions1"
       ELSE pc' = "flush"
    /\ UNCHANGED <<config_vars, conn_vars, engine_vars, parse_vars, poll_vars,
                   closes, path_error, result,
                   any_cleared, marker_flushed>>

\* one call of check_duration_and_do_actions, then control goes to `next`
DoActions(next) ==
    LET e == check_duration_and_do_actions(wait_duration, wait_instant,
                                           action_iter, waiting_for, now)
    IN /\ wait_duration' = e.wait_duration
       /\ wait_instant' = e.wait_instant
       /\ action_iter' = e.iter
       /\ waiting_for' = e.wf
       /\ consumed' = consumed \o e.done
       /\ consumed_at' = IF e.done # <<>> THEN now ELSE consumed_at
       /\ unblocked' = (unblocked /\ e.wf = waiting_for)
       /\ marker_flushed' = (marker_flushed /\ e.done = <<>>)
       /\ IF e.panic
          THEN pc' = "done" /\ result' = "panic"
          ELSE pc' = next /\ result' = result

\* the first engine call of an active iteration
DoActionsFirst ==
    /\ pc = "actions1"
    /\ DoActions("parse")
    /\ wait_cleared' = FALSE
    /\ UNCHANGED <<config_vars, conn_vars, poll_vars, seen, response,
                   nresp, wf_before, app_proto_selected, closes, path_error,
                   any_cleared>>

\* the expectation the engine registered last, if it is what it consumed last
Lifts(ev) ==
    /\ consumed # <<>>
    /\ script[consumed[Len(consumed)]].op = "StreamEvent"
    /\ ev.stream = script[consumed[Len(consumed)]].stream
    /\ (ev.kind = "Finished" \/ ev.kind = script[consumed[Len(consumed)]].kind)

\* variant: a Finished event is handled like any other event
on_response_remove_only(wf, ev) == remove_wait(wf, ev)

\* the body of `for response in parse_streams(..)`
on_response(wf, ev) ==
    IF ev.kind = "Finished" THEN clear_waits_on_stream(wf, ev.stream)
    ELSE remove_wait(wf, ev)

\* a frame logged on a stream a close trigger selects marks the trigger seen
mark_seen(s, ev) ==
    IF ev.kind = "FrameArrived" /\ ev.stream \in close_trigger_frames
    THEN s \cup {ev.stream} ELSE s

ParseResponse ==
    /\ pc = "parse"
    /\ nresp < MaxResponses
    /\ \E ev \in StreamEvents :
        /\ response' = ev
        /\ waiting_for' = on_response(waiting_for, ev)
        /\ seen' = mark_seen(seen, ev)
        /\ unblocked' = (unblocked \/ Lifts(ev))
    /\ wf_before' = waiting_for
    /\ wait_cleared' = TRUE
    /\ any_cleared' = (any_cleared \/ waiting_for' # waiting_for)
    /\ nresp' = nresp + 1
    /\ UNCHANGED <<config_vars, conn_vars, poll_vars, wait_duration,
                   wait_instant, action_iter, consumed, consumed_at,
                   app_proto_selected, closes, path_error,
                   pc, result,
                   marker_flushed>>

ParseDone ==
    /\ pc = "parse"
    /\ pc' = "trigger"
    /\ response' = NoResponse
    /\ wf_before' = <<>>
    /\ nresp' = 0
    /\ UNCHANGED <<config_vars, conn_vars, engine_vars, poll_vars, seen,
                   wait_cleared, app_proto_selected, closes, path_error, result,
                   any_cleared, marker_flushed>>

all_close_trigger_frames_seen ==
    close_trigger_frames # NoTriggers /\ seen = close_trigger_frames

\* variant: the close trigger is not acted on
close_never(cs) == cs

\* if all_close_trigger_frames_seen() { close_due_to_trigger_frames(&mut conn) }
close_on_trigger(cs) ==
    IF all_close_trigger_frames_seen THEN cs \cup {"trigger"} ELSE cs

CloseOnTrigger ==
    /\ pc = "trigger"
    /\ closes' = close_on_trigger(closes)
    /\ IF wait_cleared
       THEN pc' = "actions2"
       ELSE pc' = "flush"
    /\ wait_cleared' = FALSE
    /\ any_cleared' = (wait_cleared /\ any_cleared)
    /\ UNCHANGED <<config_vars, conn_vars, engine_vars, poll_vars, seen, response,
                   nresp, wf_before, app_proto_selected, path_error, result,
                   marker_flushed>>

\* if wait_cleared { check_duration_and_do_actions(..) }
DoActionsAgain ==
    /\ pc = "actions2"
    /\ DoActions("flush")
    /\ any_cleared' = FALSE
    /\ UNCHANGED <<config_vars, conn_vars, poll_vars, parse_vars,
                   app_proto_selected, closes, path_error>>

\* break out of the inner loop of the flush: on to the next path, or the flush
\* is over, where the transport may have closed
Break ==
    \/ UNCHANGED <<pc, closed, marker_flushed>>
    \/ /\ pc' = "closed2"
       /\ closed' \in {closed, TRUE}
       /\ marker_flushed' = (action_iter >= 1 /\ script[action_iter].op = "FlushPackets")

\* conn.send_on_path: Err(Done)
FlushDone ==
    /\ pc = "flush"
    /\ Break
    /\ UNCHANGED <<config_vars, engine_vars, parse_vars, poll_vars, established,
                   app_proto_selected, closes, path_error, result,
                   any_cleared>>

\* variant: the failure is only logged
send_failed_no_close(cs) == cs

\* conn.send_on_path: Err(e) => conn.close(false, 0x1, b"fail")
send_failed(cs) == cs \cup {"fail"}

FlushSendFailed ==
    /\ pc = "flush"
    /\ closes' = send_failed(closes)
    /\ path_error' = TRUE
    /\ Break
    /\ UNCHANGED <<config_vars, engine_vars, parse_vars, poll_vars, established,
                   app_proto_selected, result,
                   any_cleared>>

\* a datagram was generated and socket.send_to took it: the loop goes on
FlushSent ==
    /\ pc = "flush"
    /\ UNCHANGED vars

\* socket.send_to: WouldBlock
FlushWouldBlock ==
    /\ pc = "flush"
    /\ Break
    /\ UNCHANGED <<config_vars, engine_vars, parse_vars, poll_vars, established,
                   app_proto_selected, closes, path_error, result,
                   any_cleared>>

\* socket.send_to failed with something else than WouldBlock
FlushSendToFailed ==
    /\ pc = "flush"
    /\ result' = "Other: send() failed"
    /\ pc' = "done"
    /\ UNCHANGED <<config_vars, conn_vars, engine_vars, parse_vars, poll_vars,
                   app_proto_selected, closes, path_error,
                   any_cleared, marker_flushed>>

\* variant: the established test is missing
closed_after_flush_summary(est) == "ConnectionSummary"

\* if !conn.is_established() { return Err(HandshakeFail) } break;
closed_after_flush(est) == IF ~est THEN "HandshakeFail" ELSE "ConnectionSummary"

\* variant: the loop also ends once the script is exhausted
CheckClosedAfterFlushOrExhausted ==
    /\ pc = "closed2"
    /\ IF closed \/ action_iter = Len(script)
       THEN /\ result' = closed_after_flush(established) /\ pc' = "done"
            /\ UNCHANGED <<closes, path_error, events_ready>>
       ELSE /\ result' = result /\ pc' = "top"
            /\ closes' = {} /\ path_error' = FALSE /\ events_ready' = FALSE
    /\ UNCHANGED <<config_vars, conn_vars, engine_vars, parse_vars, timeout,
                   actual_sleep, now, app_proto_selected,
                   any_cleared, marker_flushed>>

\* if conn.is_closed() { ... } after the flush
CheckClosedAfterFlush ==
    /\ pc = "closed2"
    /\ IF closed
       THEN /\ result' = closed_after_flush(established) /\ pc' = "done"
            /\ UNCHANGED <<closes, path_error, events_ready>>
       ELSE /\ result' = result /\ pc' = "top"
            /\ closes' = {} /\ path_error' = FALSE /\ events_ready' = FALSE
    /\ UNCHANGED <<config_vars, conn_vars, engine_vars, parse_vars, timeout,
                   actual_sleep, now, app_proto_selected,
                   any_cleared, marker_flushed>>

Next ==
    \/ ComputeSleep
    \/ PollTimeout
    \/ PollEvents
    \/ RecvFailed
    \/ RecvDone
    \/ CheckClosedAfterRecv
    \/ SelectAppProto
    \/ DoActionsFirst
    \/ ParseResponse
    \/ ParseDone
    \/ CloseOnTrigger
    \/ DoActionsAgain
    \/ FlushDone
    \/ FlushSendFailed
    \/ FlushSent
    \/ FlushWouldBlock
    \/ FlushSendToFailed
    \/ CheckClosedAfterFlush

Spec == Init /\ [][Next]_vars

\* the driver is one thread that keeps running: poll.poll returns, by its
\* deadline or by a datagram, and every other step runs to completion
FairSpec == Spec /\ WF_vars(Next)

\* ---------------------------------------------------------------- claims
\* the action the engine took last
LastAction == script[action_iter]

\* the engine takes a further action in this step
Advances == action_iter' > action_iter

\* C1: the action that follows a Wait(Duration d) taken at time t0 is never
\* taken before t0 + d
C1_WaitDurationRespected ==
    [][(Advances /\ action_iter >= 1 /\ LastAction.op = "WaitDuration")
          => now >= consumed_at + LastAction.period]_vars

\* C2: the script-wait timer and a non-empty WaitingFor never hold together
C2_OneBlockingCondition == ~(wait_duration # None /\ ~is_empty(waiting_for))

C2_Witness ==
    /\ ~is_empty(waiting_for)
    /\ wait_duration = None
    /\ Len(consumed) = 2
    /\ script[1].op = "WaitDuration"

\* C3: the actions the engine takes are a prefix of the script in script
\* order, each taken once, and the cursor never moves backwards
C3_ScriptOrder ==
    /\ [](consumed = [k \in 1..Len(consumed) |-> k] /\ Len(consumed) = action_iter
            /\ action_iter <= Len(script))
    /\ [][action_iter' >= action_iter]_vars

C3_Witness ==
    /\ Len(script) = 2
    /\ script[1].op = "WaitDuration"
    /\ consumed = <<1, 2>>

\* C4: the action that follows a Wait(StreamEvent e) is not taken before an
\* event that matches e, or a Finished event on e's stream, was decoded
C4_StreamWaitRespected ==
    [][(Advances /\ action_iter >= 1 /\ LastAction.op = "StreamEvent")
          => unblocked]_vars

C4_Witness ==
    /\ script = <<WaitStreamEvent(4, "Finished"), SendFrame>>
    /\ consumed = <<1, 2>>

OnStream(wf, id) == SelectSeq(wf, LAMBDA e : e.stream = id)
OffStream(wf, id) == SelectSeq(wf, LAMBDA e : e.stream # id)

\* C5: once a decoded Finished event for stream s is processed, WaitingFor has
\* no entry on s, and its entries on other streams are as before
C5_FinishedClearsStream ==
    [][(pc = "parse" /\ nresp' = nresp + 1 /\ response'.kind = "Finished")
          => /\ OnStream(waiting_for', response'.stream) = <<>>
             /\ OffStream(waiting_for', response'.stream)
                    = OffStream(waiting_for, response'.stream)]_vars

C5_Witness ==
    /\ pc = "parse"
    /\ response.kind = "Finished"
    /\ wf_before # <<>>
    /\ wf_before[1].stream = response.stream
    /\ wf_before[1].kind # "Finished"
    /\ waiting_for = <<>>

NoWait(sc) == \A k \in 1..Len(sc) : sc[k].op \in {"Send", "FlushPackets"}

\* the first engine call of the first active iteration is over
FirstCallOver == app_proto_selected /\ pc # "actions1"

\* C6 as stated: a script without Wait is taken whole in the first active
\* iteration
C6_NoWaitScriptTakenWhole ==
    (NoWait(script) /\ FirstCallOver) => action_iter = Len(script)

\* the position of the first FlushPackets, or the length of the script
FirstFlush(sc) ==
    IF \E k \in 1..Len(sc) : sc[k].op = "FlushPackets"
    THEN CHOOSE k \in 1..Len(sc) :
            /\ sc[k].op = "FlushPackets"
            /\ \A j \in 1..(k - 1) : sc[j].op # "FlushPackets"
    ELSE Len(sc)

\* C6 amended: a script without Wait is taken up to and including its first
\* FlushPackets, or whole if it has none, by the first engine call of the
\* first active iteration
C6_NoWaitScriptTakenToFlush ==
    (NoWait(script) /\ FirstCallOver) => action_iter >= FirstFlush(script)

C6_Witness ==
    /\ script = <<SendFrame, SendFrame>>
    /\ pc = "parse"
    /\ action_iter = 2

\* C7: a summary is returned only when the transport was seen closed and
\* established; seen closed and not established, the driver returns the
\* handshake failure; seen closed, it always returns
C7_SummaryOnlyWhenEstablished ==
    /\ result = "ConnectionSummary" => (closed /\ established)
    /\ (pc = "done" /\ closed /\ ~established) => result = "HandshakeFail"
    /\ (closed /\ pc \notin {"closed1", "closed2"}) => pc = "done"

C7_Witness ==
    /\ result = "HandshakeFail"
    /\ path_error

\* C8: in an active iteration where the close trigger is satisfied after the
\* responses were decoded, the close was requested before the flush
C8_CloseOnTriggerBeforeFlush ==
    (app_proto_selected /\ pc \in {"actions2", "flush", "closed2"}
        /\ all_close_trigger_frames_seen) => "trigger" \in closes

C8_Witness ==
    /\ pc = "flush"
    /\ "trigger" \in closes
    /\ events_ready

\* C9: with a wait w armed and a transport timeout t < w, the poll deadline
\* is t and the wait stays armed with w - t
C9_ShaveKeepsWaitArmed ==
    [][(pc = "top" /\ pc' = "poll" /\ wait_duration # None /\ timeout' # None
            /\ timeout' < wait_duration)
          => /\ actual_sleep' = timeout'
             /\ wait_duration' = wait_duration - timeout'
             /\ wait_duration' > 0]_vars

C9_Witness ==
    /\ pc = "poll"
    /\ timeout = 1
    /\ actual_sleep = 1
    /\ wait_duration = 1
    /\ action_iter >= 1
    /\ LastAction.op = "WaitDuration"
    /\ LastAction.period = 2

C11_WaitArmedAtConsumption ==
    [][(Advances /\ script[action_iter'].op = "WaitDuration")
          => /\ wait_duration' = script[action_iter'].period
             /\ wait_instant' = now]_vars

\* C12: after a FlushPackets is taken no further action is taken before the
\* flush has run, and taking it arms neither the timer nor WaitingFor
C12_FlushMarkerHoldsActions ==
    [][/\ (Advances /\ action_iter >= 1 /\ LastAction.op = "FlushPackets")
            => marker_flushed
       /\ (Advances /\ script[action_iter'].op = "FlushPackets")
            => (wait_duration' = None /\ is_empty(waiting_for'))]_vars

\* C13: an engine call made while WaitingFor is not empty changes neither the
\* cursor, nor WaitingFor, nor the timer, and takes no action
C13_EngineNoOpWhileWaiting ==
    [][(pc \in {"actions1", "actions2"} /\ ~is_empty(waiting_for))
          => UNCHANGED <<action_iter, waiting_for, wait_duration, wait_instant,
                         consumed>>]_vars

C13_Witness ==
    /\ pc = "parse"
    /\ nresp = 0
    /\ ~is_empty(waiting_for)
    /\ consumed_at < now

\* C14: the engine is called a second time in an iteration if a response
\* removed an expectation, and only then
C14_SecondCallOnlyWhenCleared ==
    /\ (pc = "trigger" /\ any_cleared) => wait_cleared
    /\ pc = "actions2" => any_cleared

MinDeadline(w, t) ==
    IF w = None THEN t
    ELSE IF t = None THEN w
    ELSE IF w < t THEN w ELSE t

\* C15: the poll deadline is the smaller of the armed wait and the transport
\* timeout, an absent one counting as unbounded, and none iff both are absent
C15_DeadlineIsMin ==
    [][(pc = "top" /\ pc' = "poll")
          => /\ actual_sleep' = MinDeadline(wait_duration, timeout')
             /\ (actual_sleep' = None) = (wait_duration = None /\ timeout' = None)]_vars

C15_Witness ==
    /\ pc = "poll"
    /\ timeout = 2
    /\ actual_sleep = 1
    /\ wait_duration = 1

\* C16: before the session is active no action is taken and no response is
\* decoded; it becomes active where the transport is tested, at once when it
\* is established, and it stays active
C16_ActiveOnceReady ==
    /\ [](~app_proto_selected
            => /\ consumed = <<>> /\ action_iter = 0
               /\ response = NoResponse /\ nresp = 0 /\ seen = {}
               /\ pc \notin {"actions1", "parse", "trigger", "actions2"})
    /\ [][app_proto_selected => app_proto_selected']_vars
    /\ [][(~app_proto_selected /\ app_proto_selected') => pc = "select"]_vars
    /\ [][(pc = "select" /\ established) => app_proto_selected']_vars

C16_Witness ==
    /\ app_proto_selected
    /\ ~established
    /\ pc = "parse"
    /\ nresp = 1
    /\ consumed_at = now
    /\ now > 0

SocketErrors == {"Other: recv() failed", "Other: send() failed"}

\* C17: the driver returns only when the transport is closed or a socket
\* call failed, not because the script is exhausted, and once the transport
\* is closed it does return
C17_ReturnsOnCloseOrError ==
    /\ [](pc = "done" => (closed \/ result \in SocketErrors))
    /\ [](result # "running" => pc = "done")
    /\ (closed ~> pc = "done")

C17_Witness ==
    /\ Len(script) >= 1
    /\ action_iter = Len(script)
    /\ pc = "poll"
    /\ consumed_at < now
    /\ result = "running"

\* C18: WaitingFor never holds more than one expectation
C18_AtMostOneExpectation == Len(waiting_for) <= 1

C18_Witness ==
    /\ Len(waiting_for) = 1
    /\ Len(script) = 2
    /\ script[2].op = "StreamEvent"
    /\ action_iter = 1
    /\ pc = "parse"

\* C19: an armed timer always has its start instant, so that the unwrap of
\* wait_instant never fails
C19_InstantSetWhenArmed ==
    /\ wait_duration # None => wait_instant # None
    /\ result # "panic"

C19_Witness ==
    /\ pc = "actions1"
    /\ wait_duration # None
    /\ wait_instant # None
    /\ wait_instant < now

\* C20: the timeout is subtracted from the armed wait only when it is smaller,
\* and what is stored is positive
C20_ShaveNeverUnderflows ==
    [][(pc = "top" /\ pc' = "poll")
          => IF wait_duration # None /\ timeout' # None /\ timeout' < wait_duration
             THEN wait_duration' = wait_duration - timeout' /\ wait_duration' > 0
             ELSE wait_duration' = wait_duration]_vars

C20_Witness ==
    /\ pc = "poll"
    /\ timeout = 0
    /\ actual_sleep = 0
    /\ wait_duration = 1
    /\ action_iter >= 1
    /\ LastAction.op = "WaitDuration"
    /\ LastAction.period = 2
====
